---------------------------- MODULE Spec2Model ----------------------------
(***************************************************************************)
(* Model of the xplain model-acquisition and caching subsystem:            *)
(*   - resolve_model_source / BlipCaptioner.from_pretrained (models/blip)  *)
(*   - get_device / get_model (models/registry)                            *)
(*   - load_captioner / predict_caption / predict_captions                 *)
(*     (inference/predict), run by several threads against the            *)
(*     module-level global _MODEL.                                         *)
(***************************************************************************)
EXTENDS Integers, Sequences, FiniteSets, TLC

(***************************************************************************)
(* Bounds of the model.                                                    *)
(***************************************************************************)
NumCallers == 2
MaxCalls == 3
MaxChildren == 2

Callers == 1 .. NumCallers
Children == 1 .. MaxChildren

(***************************************************************************)
(* The local filesystem below LOCAL_MODEL_DIR.                             *)
(*   root     : what LOCAL_MODEL_DIR names ("missing", a plain "file", or  *)
(*              a "dir")                                                   *)
(*   manifest : config.json directly inside it: "none", or present with a  *)
(*              loadable artifact ("ok") or a corrupt one ("broken")       *)
(*   child    : the entries of the directory, by name                      *)
(*       "absent"  no such entry                                           *)
(*       "file"    a plain file                                            *)
(*       "dir"     a directory without config.json                         *)
(*       "model"   a directory with config.json and a loadable artifact    *)
(*       "broken"  a directory with config.json and a corrupt artifact     *)
(*       "deep"    a directory whose own subdirectory holds config.json    *)
(* A path is 0 for LOCAL_MODEL_DIR itself and c for join(LOCAL_MODEL_DIR,  *)
(* child c); NoPath is the absence of a path.                              *)
(***************************************************************************)
ChildKinds == {"absent", "file", "dir", "model", "broken", "deep"}
NoPath == 0 - 1

NoDir(root) == [root |-> root, manifest |-> "none", child |-> [c \in Children |-> "absent"]]

AllFs ==
    {NoDir("missing"), NoDir("file")} \cup
    [root : {"dir"}, manifest : {"none", "ok", "broken"}, child : [Children -> ChildKinds]]

\* os.path.isdir(path)
isdir(f, p) ==
    IF p = 0 THEN f.root = "dir"
    ELSE p \in Children /\ f.root = "dir" /\ f.child[p] \in {"dir", "model", "broken", "deep"}

\* os.path.isfile(os.path.join(path, "config.json"))
isfile_config(f, p) ==
    IF p = 0 THEN f.root = "dir" /\ f.manifest # "none"
    ELSE p \in Children /\ f.root = "dir" /\ f.child[p] \in {"model", "broken"}

\* os.listdir(local_model_dir): the names of the entries that exist
listdir(f) == SelectSeq([c \in Children |-> c], LAMBDA c : f.child[c] # "absent")

RECURSIVE candidate_scan_any_dir(_, _, _, _)
candidate_scan_any_dir(f, children, i, acc) ==
    IF i > Len(children) THEN acc
    ELSE candidate_scan_any_dir(f, children, i + 1,
            IF isdir(f, children[i]) THEN Append(acc, children[i]) ELSE acc)

\* the for-loop that fills candidate_folders, from position i of children
RECURSIVE candidate_scan(_, _, _, _)
candidate_scan(f, children, i, acc) ==
    IF i > Len(children) THEN acc
    ELSE candidate_scan(f, children, i + 1,
            IF isdir(f, children[i]) /\ isfile_config(f, children[i])
            THEN Append(acc, children[i])
            ELSE acc)

Returns(p) == [kind |-> "ok", path |-> p, listed |-> <<>>, msg |-> ""]
Raises(e, m, l) == [kind |-> e, path |-> NoPath, listed |-> l, msg |-> m]

resolve_model_source_scan_first(local_model_dir, f) ==
    IF local_model_dir \in {"None", ""} THEN Raises("FileNotFoundError", "empty", <<>>)
    ELSE LET cands == IF isdir(f, 0) THEN candidate_scan(f, listdir(f), 1, <<>>) ELSE <<>>
         IN  IF Len(cands) = 1 THEN Returns(cands[1])
             ELSE IF Len(cands) > 1 THEN Raises("RuntimeError", "multiple", cands)
             ELSE IF isdir(f, 0) /\ isfile_config(f, 0) THEN Returns(0)
             ELSE Raises("FileNotFoundError", "no_valid", <<>>)

resolve_model_source_first_candidate(local_model_dir, f) ==
    IF local_model_dir \in {"None", ""} THEN Raises("FileNotFoundError", "empty", <<>>)
    ELSE IF isdir(f, 0) /\ isfile_config(f, 0) THEN Returns(0)
    ELSE IF isdir(f, 0) THEN
        LET cands == candidate_scan(f, listdir(f), 1, <<>>)
        IN  IF Len(cands) >= 1 THEN Returns(cands[1])
            ELSE Raises("FileNotFoundError", "no_valid", <<>>)
    ELSE Raises("FileNotFoundError", "no_valid", <<>>)

resolve_model_source_default_dir(local_model_dir, f) ==
    IF local_model_dir \in {"None", ""} THEN Raises("FileNotFoundError", "empty", <<>>)
    ELSE IF isdir(f, 0) /\ isfile_config(f, 0) THEN Returns(0)
    ELSE IF isdir(f, 0) THEN
        LET cands == candidate_scan(f, listdir(f), 1, <<>>)
        IN  IF Len(cands) = 1 THEN Returns(cands[1])
            ELSE IF Len(cands) > 1 THEN Raises("RuntimeError", "multiple", cands)
            ELSE Returns(0)
    ELSE Returns(0)

resolve_model_source_unset_is_cwd(local_model_dir, f) ==
    IF isdir(f, 0) /\ isfile_config(f, 0) THEN Returns(0)
    ELSE IF isdir(f, 0) THEN
        LET cands == candidate_scan(f, listdir(f), 1, <<>>)
        IN  IF Len(cands) = 1 THEN Returns(cands[1])
            ELSE IF Len(cands) > 1 THEN Raises("RuntimeError", "multiple", cands)
            ELSE Raises("FileNotFoundError", "no_valid", <<>>)
    ELSE Raises("FileNotFoundError", "no_valid", <<>>)

\* resolve_model_source(local_model_dir): the path to load from, or the error raised
resolve_model_source(local_model_dir, f) ==
    IF local_model_dir \in {"None", ""} THEN Raises("FileNotFoundError", "empty", <<>>)
    ELSE IF isdir(f, 0) /\ isfile_config(f, 0) THEN Returns(0)
    ELSE IF isdir(f, 0) THEN
        LET cands == candidate_scan(f, listdir(f), 1, <<>>)
        IN  IF Len(cands) = 1 THEN Returns(cands[1])
            ELSE IF Len(cands) > 1 THEN Raises("RuntimeError", "multiple", cands)
            ELSE Raises("FileNotFoundError", "no_valid", <<>>)
    ELSE Raises("FileNotFoundError", "no_valid", <<>>)


(***************************************************************************)
(* Settings (config.py): a frozen snapshot of the environment.  "None"     *)
(* stands for an attribute the settings object does not have.              *)
(***************************************************************************)
MAX_NEW_TOKENS == 80
BEAM_SIZE == 3

\* torch.device(device_str) accepts a known device type and raises RuntimeError otherwise
torch_device_ok(device_str) == device_str \in {"cpu", "cuda"}

\* get_device(settings): the torch device, or the error torch.device raises
get_device(s, cuda_available) ==
    IF s.DEVICE \notin {"None", ""}
    THEN [kind |-> IF torch_device_ok(s.DEVICE) THEN "ok" ELSE "RuntimeError", device |-> s.DEVICE]
    ELSE [kind |-> "ok", device |-> IF cuda_available THEN "cuda" ELSE "cpu"]

\* BlipCaptioner.from_pretrained(model_source, device): "ok" or the error raised.
\* AutoProcessor / BlipForConditionalGeneration raise OSError on a folder that
\* holds no loadable artifact; model.to raises RuntimeError without the device.
from_pretrained(f, model_source, device, cuda_available) ==
    IF ~isdir(f, model_source) THEN "FileNotFoundError"
    ELSE IF ~(IF model_source = 0 THEN f.manifest = "ok" ELSE f.child[model_source] = "model")
         THEN "OSError"
    ELSE IF device = "cuda" /\ ~cuda_available THEN "RuntimeError"
    ELSE "ok"

\* get_model(settings): [kind |-> "ok", path, device] or [kind |-> the error raised]
\* a model_source that is no local path: a hub identifier such as the default
\* of Settings.HF_MODEL_NAME
HF_MODEL_NAME == 0 - 2

EngineCall(fn, model_source, local_only) ==
    [fn |-> fn, source |-> model_source, local_files_only |-> local_only,
     trust_remote_code |-> FALSE]

from_pretrained_calls_hub(f, model_source) ==
    <<EngineCall("AutoProcessor.from_pretrained", model_source, isdir(f, model_source)),
      EngineCall("BlipForConditionalGeneration.from_pretrained", model_source,
                 isdir(f, model_source))>>

\* the engine constructors BlipCaptioner.from_pretrained calls, in order, with
\* their arguments; on an incomplete artifact the processor is read and the
\* model constructor is the one that raises
from_pretrained_calls(f, model_source) ==
    IF ~isdir(f, model_source) THEN <<>>
    ELSE <<EngineCall("AutoProcessor.from_pretrained", model_source, TRUE),
           EngineCall("BlipForConditionalGeneration.from_pretrained", model_source, TRUE)>>

get_model(s, f, cuda_available) ==
    LET dev == get_device(s, cuda_available)
    IN  IF dev.kind # "ok" THEN [kind |-> dev.kind, path |-> NoPath, device |-> ""]
        ELSE IF s.MODEL_FAMILY = "blip" THEN
            LET src == resolve_model_source(s.LOCAL_MODEL_DIR, f)
            IN  IF src.kind # "ok" THEN [kind |-> src.kind, path |-> NoPath, device |-> ""]
                ELSE LET made == from_pretrained(f, src.path, dev.device, cuda_available)
                     IN  IF made = "ok"
                         THEN [kind |-> "ok", path |-> src.path, device |-> dev.device]
                         ELSE [kind |-> made, path |-> src.path, device |-> ""]
        ELSE [kind |-> "NotImplementedError", path |-> NoPath, device |-> ""]

(***************************************************************************)
(* Images and the engine stub.  An image path is "" (empty), "bad" (a file *)
(* PIL cannot open) or the path of a readable X-ray.                       *)
(***************************************************************************)
Paths == {"", "bad", "x1", "x2"}

\* load_image(image_path): the RGB image, or InvalidInputError
load_image(path) ==
    IF path = "" \/ path = "bad" THEN [kind |-> "InvalidInputError", image |-> ""]
    ELSE [kind |-> "ok", image |-> path]

\* BlipCaptioner.generate on a deterministic engine: the text depends on the
\* image and the decoding parameters only
generate(image, max_length, num_beams, do_sample) ==
    [image |-> image, max_length |-> max_length, num_beams |-> num_beams,
     do_sample |-> do_sample]

(***************************************************************************)
(* io/gcs.py.  A string is a sequence of tokens: "gs://", " ", "/" and     *)
(* one-letter names, so that strip, replace, split, slicing and lstrip are *)
(* what they are on Python strings.  Storage holds one bucket, named "b";  *)
(* its content is a set of object keys.  The local directory is its kind   *)
(* (root) and the set of regular files below it, each a sequence of path   *)
(* components.                                                             *)
(***************************************************************************)
RECURSIVE lstrip(_, _)
lstrip(s, ch) ==
    IF s # <<>> /\ Head(s) = ch THEN lstrip(Tail(s), ch) ELSE s

RECURSIVE rstrip(_, _)
rstrip(s, ch) ==
    IF s # <<>> /\ s[Len(s)] = ch THEN rstrip(SubSeq(s, 1, Len(s) - 1), ch) ELSE s

\* str.strip()
strip(s) ==
    rstrip(lstrip(s, " "), " ")

\* str.replace(old, "")
replace(s, old) ==
    SelectSeq(s, LAMBDA x : x # old)

\* str.split(sep, 1)
split_1(s, sep) ==
    IF \E i \in 1 .. Len(s) : s[i] = sep
    THEN LET i == CHOOSE i \in 1 .. Len(s) :
                      s[i] = sep /\ \A j \in 1 .. i - 1 : s[j] # sep
         IN  <<SubSeq(s, 1, i - 1), SubSeq(s, i + 1, Len(s))>>
    ELSE <<s>>

\* os.getenv(name, default)
getenv(e, name, default) ==
    IF name \in DOMAIN e THEN e[name] ELSE default

\* parse_gs_uri(gs_uri): (bucket_name, prefix); it raises nothing
parse_gs_uri(gs_uri) ==
    LET no_scheme == replace(gs_uri, "gs://")
        parts == split_1(no_scheme, "/")
    IN  [bucket_name |-> parts[1],
         prefix |-> IF Len(parts) > 1 THEN parts[2] ELSE <<>>]

BucketName == <<"b">>
ObjectKeys ==
    {<<"m">>, <<"m", "/">>, <<"m", "/", "c">>, <<"m", "/", "w">>,
     <<"m", "c">>, <<"o", "/", "c">>}

\* the code point order of the tokens that occur in object keys
Rank(tok) ==
    CASE tok = "/" -> 0 [] tok = "c" -> 1 [] tok = "m" -> 2
      [] tok = "o" -> 3 [] tok = "w" -> 4

RECURSIVE LexLess(_, _)
LexLess(a, b) ==
    IF a = <<>> THEN b # <<>>
    ELSE IF b = <<>> THEN FALSE
    ELSE IF Head(a) = Head(b) THEN LexLess(Tail(a), Tail(b))
    ELSE Rank(Head(a)) < Rank(Head(b))

RECURSIVE Sorted(_)
Sorted(keys) ==
    IF keys = {} THEN <<>>
    ELSE LET k == CHOOSE k \in keys : \A o \in keys \ {k} : LexLess(k, o)
         IN  <<k>> \o Sorted(keys \ {k})

startswith(s, p) ==
    Len(s) >= Len(p) /\ SubSeq(s, 1, Len(p)) = p

\* iterating client.list_blobs(bucket_name, prefix=prefix): the keys that start
\* with the prefix, in name order; a bucket that does not exist raises NotFound
list_blobs(bkt, bucket_name, prefix) ==
    IF bucket_name # BucketName THEN [kind |-> "NotFound", blobs |-> <<>>]
    ELSE [kind |-> "ok", blobs |-> Sorted({k \in bkt : startswith(k, prefix)})]

\* Path(...) / relative_path: the components of a relative path; empty
\* components (doubled or trailing slashes) vanish
RECURSIVE path_parts(_, _, _)
path_parts(s, cur, acc) ==
    IF s = <<>> THEN (IF cur = <<>> THEN acc ELSE Append(acc, cur))
    ELSE IF Head(s) = "/"
         THEN path_parts(Tail(s), <<>>, IF cur = <<>> THEN acc ELSE Append(acc, cur))
         ELSE path_parts(Tail(s), Append(cur, Head(s)), acc)

\* blob_name[len(prefix):].lstrip("/")  (line 144)
relative_path(blob_name, prefix) ==
    lstrip(SubSeq(blob_name, Len(prefix) + 1, Len(blob_name)), "/")

is_dir_in(files, p) ==
    \E f \in files : Len(f) > Len(p) /\ SubSeq(f, 1, Len(p)) = p

\* the for-loop of download_gcs_folder from position i of the listing: the
\* files on disk and the downloads made when it ends or raises
RECURSIVE download_loop(_, _, _, _, _)
download_loop(prefix, blobs, i, files, writes) ==
    IF i > Len(blobs) THEN [kind |-> "ok", files |-> files, writes |-> writes]
    ELSE LET target_path == path_parts(relative_path(blobs[i], prefix), <<>>, <<>>)
         IN  IF \E j \in 1 .. Len(target_path) - 1 : SubSeq(target_path, 1, j) \in files
             THEN [kind |-> "FileExistsError", files |-> files, writes |-> writes]
             ELSE IF target_path = <<>> \/ is_dir_in(files, target_path)
             THEN [kind |-> "IsADirectoryError", files |-> files, writes |-> writes]
             ELSE download_loop(prefix, blobs, i + 1, files \cup {target_path},
                     Append(writes, [key |-> blobs[i], target |-> target_path]))

NotFetched ==
    [kind |-> "none", runs |-> 0, clients |-> 0, listed |-> FALSE, blobs |-> <<>>,
     writes |-> <<>>]

\* what one run of the fetch did, and the local directory it leaves
Fetched(k, c, l, b, w, d) ==
    [out |-> [kind |-> k, runs |-> 1, clients |-> c, listed |-> l, blobs |-> b,
              writes |-> w],
     disk |-> d]

download_gcs_folder_anonymous(gs_uri, d, has_lib, has_creds, bkt) ==
    IF ~has_lib THEN Fetched("ImportError", 0, FALSE, <<>>, <<>>, d)
    ELSE LET uri == parse_gs_uri(gs_uri)
             listing == list_blobs(bkt, uri.bucket_name, uri.prefix)
         IN  IF d.root = "file" THEN Fetched("FileExistsError", 1, FALSE, <<>>, <<>>, d)
             ELSE IF listing.kind # "ok"
             THEN Fetched(listing.kind, 1, TRUE, <<>>, <<>>, [d EXCEPT !.root = "dir"])
             ELSE LET done == download_loop(uri.prefix, listing.blobs, 1, d.files, <<>>)
                  IN  Fetched(done.kind, 1, TRUE, listing.blobs, done.writes,
                              [root |-> "dir", files |-> done.files])

\* download_gcs_folder(gs_uri, local_dir)
download_gcs_folder(gs_uri, d, has_lib, has_creds, bkt) ==
    IF ~has_lib THEN Fetched("ImportError", 0, FALSE, <<>>, <<>>, d)
    ELSE IF ~has_creds THEN Fetched("DefaultCredentialsError", 0, FALSE, <<>>, <<>>, d)
    ELSE LET uri == parse_gs_uri(gs_uri)
             listing == list_blobs(bkt, uri.bucket_name, uri.prefix)
         IN  IF d.root = "file" THEN Fetched("FileExistsError", 1, FALSE, <<>>, <<>>, d)
             ELSE IF listing.kind # "ok"
             THEN Fetched(listing.kind, 1, TRUE, <<>>, <<>>, [d EXCEPT !.root = "dir"])
             ELSE LET done == download_loop(uri.prefix, listing.blobs, 1, d.files, <<>>)
                  IN  Fetched(done.kind, 1, TRUE, listing.blobs, done.writes,
                              [root |-> "dir", files |-> done.files])

main_no_skip(e, d, has_lib, has_creds, bkt) ==
    download_gcs_folder(strip(getenv(e, "GCS_MODEL_URI", <<>>)), d, has_lib, has_creds, bkt)

\* main(): the fetch run at container startup
main(e, d, has_lib, has_creds, bkt) ==
    LET gs_uri == strip(getenv(e, "GCS_MODEL_URI", <<>>))
    IN  IF gs_uri = <<>> THEN Fetched("ok", 0, FALSE, <<>>, <<>>, d)
        ELSE download_gcs_folder(gs_uri, d, has_lib, has_creds, bkt)

(***************************************************************************)
(* State.                                                                  *)
(*   settings, cuda_available, fs : the environment of the process         *)
(*   MODEL    : the module global _MODEL; 0 is None, n > 0 is the n-th     *)
(*              BlipCaptioner constructed in this process                  *)
(*   pc[t]    : where thread t is: "idle", or a line of load_captioner     *)
(*   op[t], arg[t] : the function thread t called last and, while the call *)
(*              runs, its argument                                         *)
(*   loc[t]   : the captioner get_model returned to t, not yet assigned    *)
(*   warm[t]  : whether _MODEL held a captioner when t's call began        *)
(*   out[t]   : how t's last call ended                                    *)
(*   calls, gets, failed, made, returned : history: calls begun, get_model *)
(*              executions begun and failed, captioners constructed, and   *)
(*              the values load_captioner has returned                     *)
(*   resolved : the last result of resolve_model_source                    *)
(*   environ, credentials, installed, bucket : the container's environment *)
(*              variables, whether ambient credentials exist, whether      *)
(*              google-cloud-storage is installed, the keys in the bucket  *)
(*   disk     : LOCAL_MODEL_DIR as the fetch sees it, file by file         *)
(*   fetched  : what the runs of gcs.main did so far                       *)
(*   before   : disk as it was when gcs.main last started                  *)
(*   phase    : the container's stage: "entrypoint", "serving", "exited"   *)
(*   built    : the last results of get_device and of                      *)
(*              BlipCaptioner.from_pretrained called on their own          *)
(*   http     : the HTTP request being handled and the temporary           *)
(*              directory                                                  *)
(***************************************************************************)
VARIABLES settings, cuda_available, fs, MODEL, pc, op, arg, loc,
          warm, out, calls, gets, failed, made, returned, resolved,
          environ, credentials, installed, bucket, disk, fetched, before, phase,
          built, http

vars == <<settings, cuda_available, fs, MODEL, pc, op, arg, loc,
          warm, out, calls, gets, failed, made, returned, resolved,
          environ, credentials, installed, bucket, disk, fetched, before, phase,
          built, http>>

env == <<settings, cuda_available, fs>>
hist == <<calls, gets, failed, made, returned>>
remote == <<environ, credentials, installed, bucket>>
gcs == <<remote, disk, fetched, before, phase>>
aux == <<built, http>>

NoOutcome == [kind |-> "none", inst |-> 0, text |-> <<>>, err |-> ""]
Value(inst, text) == [kind |-> "value", inst |-> inst, text |-> text, err |-> ""]
Raised(e) == [kind |-> "raise", inst |-> 0, text |-> <<>>, err |-> e]
NotResolved == [kind |-> "none", path |-> NoPath, listed |-> <<>>, msg |-> ""]

predict_caption_105_sampling(captioner, image_path) ==
    LET img == load_image(image_path)
    IN  IF img.kind # "ok" THEN Raised(img.kind)
        ELSE Value(captioner, <<generate(img.image, MAX_NEW_TOKENS, BEAM_SIZE, TRUE)>>)

predict_caption_105_beams_drift(captioner, image_path) ==
    LET img == load_image(image_path)
    IN  IF img.kind # "ok" THEN Raised(img.kind)
        ELSE Value(captioner, <<generate(img.image, MAX_NEW_TOKENS, calls, FALSE)>>)

\* predict_caption lines 105-129 on the captioner load_captioner returned:
\* load_image, generate, return the caption
predict_caption_105(captioner, image_path) ==
    LET img == load_image(image_path)
    IN  IF img.kind # "ok" THEN Raised(img.kind)
        ELSE Value(captioner, <<generate(img.image, MAX_NEW_TOKENS, BEAM_SIZE, FALSE)>>)

RECURSIVE predict_captions_168_newest_first(_, _, _, _)
predict_captions_168_newest_first(captioner, image_paths, i, captions) ==
    IF i > Len(image_paths) THEN Value(captioner, captions)
    ELSE LET img == load_image(image_paths[i])
         IN  IF img.kind # "ok" THEN Raised(img.kind)
             ELSE predict_captions_168_newest_first(captioner, image_paths, i + 1,
                      <<generate(img.image, MAX_NEW_TOKENS, BEAM_SIZE, FALSE)>> \o captions)

RECURSIVE predict_captions_168_skipping(_, _, _, _)
predict_captions_168_skipping(captioner, image_paths, i, captions) ==
    IF i > Len(image_paths) THEN Value(captioner, captions)
    ELSE LET img == load_image(image_paths[i])
         IN  predict_captions_168_skipping(captioner, image_paths, i + 1,
                 IF img.kind # "ok" THEN captions
                 ELSE Append(captions, generate(img.image, MAX_NEW_TOKENS, BEAM_SIZE, FALSE)))

\* predict_captions lines 166-195 on the captioner load_captioner returned: the
\* loop from position i with the captions collected so far, and the return
RECURSIVE predict_captions_168(_, _, _, _)
predict_captions_168(captioner, image_paths, i, captions) ==
    IF i > Len(image_paths) THEN Value(captioner, captions)
    ELSE LET img == load_image(image_paths[i])
         IN  IF img.kind # "ok" THEN Raised(img.kind)
             ELSE predict_captions_168(captioner, image_paths, i + 1,
                      Append(captions, generate(img.image, MAX_NEW_TOKENS, BEAM_SIZE, FALSE)))

\* the lines of load_captioner a thread can be at
InLoadCaptioner == {"l61", "l62", "l68", "l68_store", "l73"}

Blip(dir, device) == [MODEL_FAMILY |-> "blip", LOCAL_MODEL_DIR |-> dir, DEVICE |-> device]

\* the directory layouts and the requests the served process is run against
FlatModel(m) == [root |-> "dir", manifest |-> m, child |-> [c \in Children |-> "absent"]]
Nested(n) == [root |-> "dir", manifest |-> "none",
              child |-> [c \in Children |-> IF c <= n THEN "model" ELSE "absent"]]
ServedFs == {FlatModel("ok"), Nested(2)}
ServedPaths == {"", "bad", "x1"}
ServedBatches == {<<>>, <<"x1">>, <<"x1", "bad">>}

NotBuilt ==
    [dev |-> [kind |-> "none", device |-> ""],
     eng |-> [kind |-> "none", source |-> NoPath, calls |-> <<>>]]
NoRequest == [pc |-> "none"]

InitThreads ==
    /\ built = NotBuilt
    /\ MODEL = 0
    /\ pc = [t \in Callers |-> "idle"]
    /\ op = [t \in Callers |-> "none"]
    /\ arg = [t \in Callers |-> <<>>]
    /\ loc = [t \in Callers |-> 0]
    /\ warm = [t \in Callers |-> FALSE]
    /\ out = [t \in Callers |-> NoOutcome]
    /\ calls = 0 /\ gets = 0 /\ failed = 0 /\ made = 0
    /\ returned = {}
    /\ resolved = NotResolved

NoEnviron == [name \in {} |-> <<>>]
Disk(root, files) == [root |-> root, files |-> files]

\* a container that is serving already and was started without GCS_MODEL_URI
InitServing ==
    /\ environ = NoEnviron /\ credentials = TRUE /\ installed = TRUE
    /\ bucket = {}
    /\ disk = Disk("dir", {})
    /\ fetched = NotFetched
    /\ before = disk
    /\ phase = "serving"
    /\ http = NoRequest

Init ==
    /\ settings = Blip("models", "cpu")
    /\ cuda_available = FALSE
    /\ fs \in ServedFs
    /\ InitThreads
    /\ InitServing

\* a call of f(a) begins on thread t: it ends at once with `outcome`, or (NoOutcome)
\* goes on to line 61 of load_captioner
Begin(t, f, a, outcome) ==
    /\ calls' = calls + 1
    /\ op' = [op EXCEPT ![t] = f]
    /\ warm' = [warm EXCEPT ![t] = MODEL # 0]
    /\ out' = [out EXCEPT ![t] = outcome]
    /\ IF outcome.kind = "none"
       THEN pc' = [pc EXCEPT ![t] = "l61"] /\ arg' = [arg EXCEPT ![t] = a]
       ELSE pc' = pc /\ arg' = arg
    /\ UNCHANGED <<env, MODEL, loc, gets, failed, made, returned, resolved, gcs, aux>>

\* the call of thread t ends with `outcome` (a return value or an exception) and
\* its frame is dropped
End(t, outcome) ==
    /\ pc' = [pc EXCEPT ![t] = "idle"]
    /\ out' = [out EXCEPT ![t] = outcome]
    /\ arg' = [arg EXCEPT ![t] = <<>>]
    /\ loc' = [loc EXCEPT ![t] = 0]

\* load_captioner() is called (api/fast.py startup_event, or any user of the package)
call_load_captioner(t) ==
    /\ pc[t] = "idle" /\ calls < MaxCalls
    /\ Begin(t, "load_captioner", <<>>, NoOutcome)

call_predict_caption_unvalidated(t, image_path) ==
    /\ pc[t] = "idle" /\ calls < MaxCalls
    /\ Begin(t, "predict_caption", <<image_path>>, NoOutcome)

\* predict_caption(image_path) is called: line 94 validates, line 100 calls load_captioner
call_predict_caption(t, image_path) ==
    /\ pc[t] = "idle" /\ calls < MaxCalls
    /\ Begin(t, "predict_caption", <<image_path>>,
             IF image_path = "" THEN Raised("InvalidInputError") ELSE NoOutcome)

\* predict_captions(image_paths) is called: line 150 validates, line 156 calls
\* load_captioner; is_none is image_paths being None
call_predict_captions(t, is_none, image_paths) ==
    /\ pc[t] = "idle" /\ calls < MaxCalls
    /\ Begin(t, "predict_captions", image_paths,
             IF is_none \/ Len(image_paths) = 0 THEN Raised("InvalidInputError")
             ELSE NoOutcome)

load_captioner_61_unchecked(t) ==
    /\ pc[t] = "l61"
    /\ pc' = [pc EXCEPT ![t] = "l68"] /\ gets' = gets + 1
    /\ UNCHANGED <<env, MODEL, op, arg, loc, warm, out, calls, failed, made, returned,
                   resolved, gcs, aux>>

\* load_captioner line 61: if _MODEL is not None; else lines 65-68 call get_model
load_captioner_61(t) ==
    /\ pc[t] = "l61"
    /\ IF MODEL # 0
       THEN pc' = [pc EXCEPT ![t] = "l62"] /\ gets' = gets
       ELSE pc' = [pc EXCEPT ![t] = "l68"] /\ gets' = gets + 1
    /\ UNCHANGED <<env, MODEL, op, arg, loc, warm, out, calls, failed, made, returned,
                   resolved, gcs, aux>>

load_captioner_returns_dropping(t, v) ==
    LET outcome == IF op[t] = "load_captioner" THEN Value(v, <<>>)
                   ELSE IF op[t] = "predict_caption" THEN predict_caption_105(v, arg[t][1])
                   ELSE predict_captions_168(v, arg[t], 1, <<>>)
    IN  /\ returned' = returned \cup {v}
        /\ End(t, outcome)
        /\ MODEL' = IF outcome.kind = "raise" THEN 0 ELSE MODEL
        /\ UNCHANGED <<env, op, warm, calls, gets, failed, made, resolved, gcs, aux>>

\* load_captioner returns v to its caller: to the API, or to predict_caption line 100
\* or predict_captions line 156, whose remaining lines touch nothing shared
load_captioner_returns(t, v) ==
    /\ returned' = returned \cup {v}
    /\ End(t, IF op[t] = "load_captioner" THEN Value(v, <<>>)
              ELSE IF op[t] = "predict_caption" THEN predict_caption_105(v, arg[t][1])
              ELSE predict_captions_168(v, arg[t], 1, <<>>))
    /\ UNCHANGED <<env, MODEL, op, warm, calls, gets, failed, made, resolved, gcs, aux>>

\* load_captioner line 62: return _MODEL
load_captioner_62(t) ==
    /\ pc[t] = "l62"
    /\ load_captioner_returns(t, MODEL)

\* load_captioner line 68, right-hand side: get_model(settings) returns or raises
load_captioner_68_fetch_first(t) ==
    /\ pc[t] = "l68" /\ fetched.runs < 2
    /\ LET r == main(environ, disk, installed, credentials, bucket)
       IN  /\ fetched' = [r.out EXCEPT !.runs = fetched.runs + 1]
           /\ disk' = r.disk
    /\ before' = disk
    /\ UNCHANGED <<env, MODEL, pc, op, arg, loc, warm, out, hist, resolved, remote, phase, aux>>

load_captioner_68_get_model(t) ==
    /\ pc[t] = "l68"
    /\ LET r == get_model(settings, fs, cuda_available)
       IN  IF r.kind = "ok"
           THEN /\ made' = made + 1
                /\ loc' = [loc EXCEPT ![t] = made + 1]
                /\ pc' = [pc EXCEPT ![t] = "l68_store"]
                /\ UNCHANGED <<out, arg, failed>>
           ELSE /\ failed' = failed + 1
                /\ End(t, Raised(r.kind))
                /\ UNCHANGED made
    /\ UNCHANGED <<env, MODEL, op, warm, calls, gets, returned, resolved, gcs, aux>>

load_captioner_68_store_local(t) ==
    /\ pc[t] = "l68_store"
    /\ pc' = [pc EXCEPT ![t] = "l73"]
    /\ UNCHANGED <<env, MODEL, op, arg, loc, warm, out, hist, resolved, gcs, aux>>

\* load_captioner line 68, the assignment: _MODEL = <the captioner get_model returned>
load_captioner_68_store(t) ==
    /\ pc[t] = "l68_store"
    /\ MODEL' = loc[t]
    /\ pc' = [pc EXCEPT ![t] = "l73"]
    /\ UNCHANGED <<env, op, arg, loc, warm, out, hist, resolved, gcs, aux>>

\* load_captioner line 73: return _MODEL
load_captioner_73(t) ==
    /\ pc[t] = "l73"
    /\ load_captioner_returns(t, MODEL)

\* the operator changes what is on disk (adds, fixes or replaces an artifact)
fs_change(f) ==
    /\ f # fs
    /\ fs' = f
    /\ UNCHANGED <<settings, cuda_available, MODEL, pc, op, arg, loc, warm, out, hist,
                   resolved, gcs, aux>>

\* the steps thread t takes once its call has begun
Step(t) ==
    \/ load_captioner_61(t)
    \/ load_captioner_62(t)
    \/ load_captioner_68_get_model(t)
    \/ load_captioner_68_store(t)
    \/ load_captioner_73(t)

Next ==
    \/ \E t \in Callers : call_load_captioner(t)
    \/ \E t \in Callers, p \in ServedPaths : call_predict_caption(t, p)
    \/ \E t \in Callers, n \in BOOLEAN, ps \in ServedBatches : call_predict_captions(t, n, ps)
    \/ \E t \in Callers : load_captioner_61(t)
    \/ \E t \in Callers : load_captioner_62(t)
    \/ \E t \in Callers : load_captioner_68_get_model(t)
    \/ \E t \in Callers : load_captioner_68_store(t)
    \/ \E t \in Callers : load_captioner_73(t)
    \/ \E f \in ServedFs : fs_change(f)

Spec == Init /\ [][Next]_vars

(***************************************************************************)
(* The cache under concurrent callers (specification Spec).                *)
(***************************************************************************)
Idle == \A t \in Callers : pc[t] = "idle"
InGetModel == {t \in Callers : pc[t] = "l68"}

\* C1: when callers race load_captioner on an empty cache and no load fails,
\* get_model is executed exactly once in total.
C1_GetModelExecutedOnce ==
    (Idle /\ failed = 0 /\ made >= 1) => gets = 1

\* C2: at most one captioner is ever constructed, and all calls of load_captioner
\* that return a value return the same instance.
C2_OneCaptionerPerProcess ==
    made <= 1 /\ Cardinality(returned) <= 1

\* C5: once _MODEL holds a captioner it holds that same captioner in every later
\* state: it is never reset to None and never replaced.
C5_CacheForwardOnly ==
    [][MODEL # 0 => MODEL' = MODEL]_vars

\* C7: no two callers are inside get_model at the same time.
C7_LoadMutuallyExclusive ==
    Cardinality(InGetModel) <= 1

\* C3: when get_model raises inside load_captioner the error reaches the caller,
\* _MODEL is None, and a call that finds _MODEL None runs get_model again.
C3_FailureLeavesCacheEmpty ==
    [][\A t \in Callers :
         /\ (pc[t] = "l68" /\ pc'[t] = "idle") => (out'[t].kind = "raise" /\ MODEL' = 0)
         /\ (pc[t] = "l61" /\ pc'[t] # "l61" /\ MODEL = 0) => pc'[t] = "l68"]_vars

\* C4: a call begun while _MODEL holds a captioner never executes get_model, and
\* load_captioner returns to it the captioner _MODEL holds.
C4_WarmCallsDoNotLoad ==
    [][\A t \in Callers :
         (warm[t] /\ pc[t] # "idle" /\ pc'[t] # pc[t]) =>
             /\ gets' = gets
             /\ pc'[t] \in {"l62", "idle"}
             /\ pc'[t] = "idle" =>
                    /\ MODEL # 0 /\ returned' = returned \cup {MODEL}
                    /\ op[t] = "load_captioner" => out'[t] = Value(MODEL, <<>>)
                    /\ out'[t].kind = "value" => out'[t].inst = MODEL]_vars

C4_Witness ==
    \E t \in Callers :
        /\ warm[t] /\ pc[t] = "idle" /\ op[t] = "load_captioner"
        /\ out[t].kind = "value" /\ calls >= 3 /\ gets = 1

(***************************************************************************)
(* Liveness: threads are scheduled fairly; nothing obliges a caller to     *)
(* begin a call, nor the operator to touch the disk.                       *)
(***************************************************************************)
\* callers that only call load_captioner, the way api/fast.py startup_event does
RaceNext ==
    \/ \E t \in Callers : call_load_captioner(t)
    \/ \E t \in Callers : load_captioner_61(t)
    \/ \E t \in Callers : load_captioner_62(t)
    \/ \E t \in Callers : load_captioner_68_get_model(t)
    \/ \E t \in Callers : load_captioner_68_store(t)
    \/ \E t \in Callers : load_captioner_73(t)
    \/ \E f \in ServedFs : fs_change(f)

RaceSpec == Init /\ [][RaceNext]_vars /\ \A t \in Callers : WF_vars(Step(t))

LoadSucceeds == get_model(settings, fs, cuda_available).kind = "ok"

\* C6: if get_model succeeds whenever it is run, every caller that has entered
\* load_captioner eventually gets a captioner back, with _MODEL holding one.
C6_CallersEventuallyReady ==
    ([]LoadSucceeds) =>
        \A t \in Callers :
            (op[t] = "load_captioner" /\ pc[t] = "l61") ~>
                (pc[t] = "idle" /\ out[t].kind = "value" /\ out[t].inst # 0 /\ MODEL # 0)

C6_Witness ==
    /\ \A t \in Callers :
          op[t] = "load_captioner" /\ ~warm[t] /\ pc[t] = "idle" /\ out[t].kind = "value"
    /\ gets = NumCallers /\ MODEL # 0

(***************************************************************************)
(* resolve_model_source as a function of the directory it is given         *)
(* (specification ResolverSpec): every layout of LOCAL_MODEL_DIR, set or   *)
(* unset.  The spec's ModelNotFound is the code's FileNotFoundError, its   *)
(* AmbiguousModel the code's RuntimeError.                                 *)
(***************************************************************************)
ResolverInit ==
    /\ settings \in {Blip(d, "cpu") : d \in {"None", "", "models"}}
    /\ cuda_available = FALSE
    /\ fs \in AllFs
    /\ InitThreads
    /\ InitServing

\* resolve_model_source(settings.LOCAL_MODEL_DIR) is called (registry.py line 141)
resolve ==
    /\ resolved' = resolve_model_source(settings.LOCAL_MODEL_DIR, fs)
    /\ UNCHANGED <<env, MODEL, pc, op, arg, loc, warm, out, hist, gcs, aux>>

ResolverNext == resolve

ResolverSpec == ResolverInit /\ [][ResolverNext]_vars

Called == resolved.kind # "none"
DirSet == settings.LOCAL_MODEL_DIR \notin {"None", ""}
DirectManifest == fs.root = "dir" /\ fs.manifest # "none"
\* the immediate subdirectories that hold a manifest
Candidates == {c \in Children : fs.root = "dir" /\ fs.child[c] \in {"model", "broken"}}
Listed == {resolved.listed[i] : i \in 1 .. Len(resolved.listed)}

\* C8: a directory that holds config.json itself is returned as it is, however many
\* of its subdirectories hold a manifest too.
C8_DirectManifestWins ==
    (Called /\ DirSet /\ DirectManifest) => resolved = Returns(0)

C8_Witness ==
    /\ Called /\ DirSet /\ DirectManifest
    /\ Cardinality(Candidates) >= 2 /\ resolved.kind = "ok" /\ resolved.path = 0

\* C9: without a direct manifest and with two or more subdirectories holding one,
\* the call fails as ambiguous (RuntimeError), names every candidate, returns none.
C9_AmbiguousFails ==
    (Called /\ DirSet /\ ~DirectManifest /\ Cardinality(Candidates) >= 2) =>
        /\ resolved.kind = "RuntimeError"
        /\ resolved.path = NoPath
        /\ Listed = Candidates
        /\ Len(resolved.listed) = Cardinality(Candidates)

C9_Witness ==
    /\ Called /\ DirSet /\ ~DirectManifest
    /\ Cardinality(Candidates) >= 2 /\ resolved.kind = "RuntimeError"
    /\ \E c \in Children : fs.child[c] = "broken"

\* C10: without a direct manifest and without any subdirectory holding one (the
\* directory missing, a plain file, or with a manifest only deeper down), the call
\* fails as not found (FileNotFoundError) and returns no path.
C10_NothingFoundFails ==
    (Called /\ ~DirectManifest /\ Candidates = {}) =>
        (resolved.kind = "FileNotFoundError" /\ resolved.path = NoPath)

C10_Witness ==
    /\ Called /\ DirSet /\ ~DirectManifest /\ Candidates = {}
    /\ \E c \in Children : fs.child[c] = "deep"
    /\ resolved.kind = "FileNotFoundError"

\* C11: without a direct manifest and with exactly one subdirectory holding one,
\* that subdirectory is returned; plain files and directories without a manifest
\* beside it are ignored.
C11_SingleCandidateReturned ==
    (Called /\ DirSet /\ ~DirectManifest /\ Cardinality(Candidates) = 1) =>
        (resolved.kind = "ok" /\ resolved.path \in Candidates)

C11_Witness ==
    /\ Called /\ DirSet /\ ~DirectManifest /\ Cardinality(Candidates) = 1
    /\ resolved.kind = "ok" /\ resolved.path \in Candidates
    /\ \E c \in Children : fs.child[c] \in {"file", "dir", "deep"}

\* C12: with LOCAL_MODEL_DIR empty or unset the call fails as not found
\* (FileNotFoundError, "LOCAL_MODEL_DIR is empty") whatever is on disk.
C12_UnsetDirFails ==
    (Called /\ ~DirSet) => resolved = Raises("FileNotFoundError", "empty", <<>>)

C12_Witness ==
    /\ Called /\ ~DirSet /\ DirectManifest
    /\ resolved.kind = "FileNotFoundError" /\ resolved.msg = "empty"

(***************************************************************************)
(* The fetch on its own: gcs.main run once in a container whose            *)
(* GCS_MODEL_URI, credentials, bucket content and local directory are any  *)
(* of the cases below.                                                     *)
(***************************************************************************)
Uris ==
    {<<>>, <<" ">>,
     <<"gs://", "b", "/", "m">>, <<"gs://", "b", "/", "m", "/">>, <<"gs://", "b">>,
     <<"b", "/", "m">>, <<"gs://", "o", "/", "m">>}
Environs == {NoEnviron} \cup {[name \in {"GCS_MODEL_URI"} |-> u] : u \in Uris}
Disks ==
    {Disk("missing", {}), Disk("file", {})}
        \cup {Disk("dir", fl) : fl \in SUBSET {<<<<"c">>>>, <<<<"s">>>>}}

FetchInit ==
    /\ settings = Blip("models", "cpu")
    /\ cuda_available = FALSE
    /\ fs = FlatModel("ok")
    /\ InitThreads
    /\ environ \in Environs
    /\ credentials \in BOOLEAN
    /\ installed \in BOOLEAN
    /\ bucket \in SUBSET ObjectKeys
    /\ disk \in Disks
    /\ fetched = NotFetched
    /\ before = disk
    /\ phase = "entrypoint"
    /\ http = NoRequest

\* python -m xplain_package.io.gcs: main() runs and the process ends, normally
\* or with the exception main let through
gcs_main ==
    /\ phase = "entrypoint"
    /\ LET r == main(environ, disk, installed, credentials, bucket)
       IN  /\ fetched' = [r.out EXCEPT !.runs = fetched.runs + 1]
           /\ disk' = r.disk
           /\ phase' = IF r.out.kind = "ok" THEN "fetch_ok" ELSE "fetch_failed"
    /\ before' = disk
    /\ UNCHANGED <<env, MODEL, pc, op, arg, loc, warm, out, hist, resolved, remote, aux>>

FetchNext == gcs_main

FetchSpec == FetchInit /\ [][FetchNext]_vars

Ran == fetched.runs > 0
gs_uri == strip(getenv(environ, "GCS_MODEL_URI", <<>>))
UriSet == gs_uri # <<>>
WrittenTargets == {fetched.writes[i].target : i \in 1 .. Len(fetched.writes)}

\* C13: with GCS_MODEL_URI unset, empty or blank the fetch ends normally, creates
\* no storage client, sends no request and leaves the local directory as it was.
C13_NoUriIsNoOp ==
    (Ran /\ ~UriSet) =>
        /\ fetched.kind = "ok"
        /\ fetched.clients = 0 /\ ~fetched.listed /\ fetched.writes = <<>>
        /\ disk = before

C13_Witness ==
    /\ Ran /\ ~UriSet /\ "GCS_MODEL_URI" \in DOMAIN environ
    /\ bucket # {} /\ ~credentials /\ ~installed
    /\ before.files # {} /\ disk = before /\ fetched.kind = "ok"

CanDownload == installed /\ credentials /\ before.root # "file"

\* C14: after a fetch that ended normally the local directory holds exactly the
\* files downloaded, nothing that was there before.
C14_FetchClearsStale ==
    (Ran /\ UriSet /\ fetched.kind = "ok") => disk.files = WrittenTargets

\* C15: a listing that yields no object makes the fetch fail with NotFound.
C15_EmptyListingFails ==
    (Ran /\ UriSet /\ fetched.listed /\ fetched.blobs = <<>>) =>
        fetched.kind = "NotFound"

\* C16: a URI without the gs:// scheme is rejected as InvalidURI before any
\* listing or download.
C16_SchemelessUriRejected ==
    (Ran /\ UriSet /\ CanDownload /\ Head(gs_uri) # "gs://") =>
        (fetched.kind = "InvalidURI" /\ ~fetched.listed /\ fetched.writes = <<>>)

\* C17: every listed object is downloaded to a file of its own inside the local
\* directory: one download per listed key, no target that is the directory
\* itself, no two keys with the same target.
C17_DistinctTargets ==
    (Ran /\ UriSet /\ fetched.listed) =>
        /\ Len(fetched.writes) = Len(fetched.blobs)
        /\ \A i \in 1 .. Len(fetched.writes) :
              /\ fetched.writes[i].key = fetched.blobs[i]
              /\ fetched.writes[i].target # <<>>
        /\ Cardinality(WrittenTargets) = Len(fetched.blobs)

\* C18: with a URI set and no ambient credentials the fetch fails with the
\* credentials error of the storage client (DefaultCredentialsError), before any
\* request, and downloads nothing; it never proceeds anonymously.
C18_NoCredentialsFails ==
    (Ran /\ UriSet /\ installed /\ ~credentials) =>
        /\ fetched.kind = "DefaultCredentialsError"
        /\ fetched.clients = 0 /\ ~fetched.listed /\ fetched.writes = <<>>
        /\ disk = before

C18_Witness ==
    /\ Ran /\ UriSet /\ installed /\ ~credentials
    /\ \E k \in bucket : startswith(k, parse_gs_uri(gs_uri).prefix)
    /\ parse_gs_uri(gs_uri).bucket_name = BucketName
    /\ before.root = "missing" /\ disk = before
    /\ fetched.kind = "DefaultCredentialsError"

(***************************************************************************)
(* The container from its start: the entrypoint runs the fetch, and the    *)
(* HTTP server with its callers of load_captioner starts once the fetch    *)
(* process has ended normally.                                             *)
(***************************************************************************)
BootInit ==
    /\ settings = Blip("models", "cpu")
    /\ cuda_available = FALSE
    /\ fs \in ServedFs
    /\ InitThreads
    /\ environ \in {NoEnviron, [name \in {"GCS_MODEL_URI"} |-> <<"gs://", "b", "/", "m">>]}
    /\ credentials \in BOOLEAN
    /\ installed = TRUE
    /\ bucket \in {{}, {<<"m", "/", "c">>, <<"m", "/", "w">>}}
    /\ disk \in {Disk("missing", {}), Disk("dir", {<<<<"s">>>>})}
    /\ fetched = NotFetched
    /\ before = disk
    /\ phase = "entrypoint"
    /\ http = NoRequest

\* entrypoint.sh: the fetch process ended normally, the server is started
entrypoint_serve ==
    /\ phase = "fetch_ok"
    /\ phase' = "serving"
    /\ UNCHANGED <<env, MODEL, pc, op, arg, loc, warm, out, hist, resolved, remote,
                   disk, fetched, before, aux>>

\* entrypoint.sh: the fetch process failed, the container stops
entrypoint_abort ==
    /\ phase = "fetch_failed"
    /\ phase' = "exited"
    /\ UNCHANGED <<env, MODEL, pc, op, arg, loc, warm, out, hist, resolved, remote,
                   disk, fetched, before, aux>>

\* the server process: startup_event and the requests call load_captioner
serving ==
    /\ phase = "serving"
    /\ RaceNext

BootNext ==
    \/ gcs_main
    \/ entrypoint_serve
    \/ entrypoint_abort
    \/ serving

BootSpec == BootInit /\ [][BootNext]_vars

\* C19: the fetch runs at most once, and only while the cache is empty and no
\* load_captioner call has begun: every step that changes what the fetch has
\* done, or the local directory, is the first run and precedes every load.
C19_FetchOnceBeforeLoad ==
    [][(fetched' # fetched \/ disk' # disk) =>
          /\ fetched.runs = 0 /\ fetched'.runs = 1
          /\ MODEL = 0 /\ calls = 0 /\ gets = 0
          /\ \A t \in Callers : pc[t] = "idle"]_vars

C19_Witness ==
    /\ fetched.runs = 1 /\ fetched.writes # <<>> /\ disk # before
    /\ phase = "serving" /\ MODEL # 0 /\ gets > 0
    /\ \E t \in Callers : pc[t] # "idle"

(***************************************************************************)
(* Loading from artifacts the engine cannot be built from: a manifest      *)
(* beside missing or corrupt weights, directly in LOCAL_MODEL_DIR or in    *)
(* its only model folder, and DEVICE=cuda on a host without CUDA.          *)
(***************************************************************************)
BrokenChild ==
    [root |-> "dir", manifest |-> "none",
     child |-> [c \in Children |-> IF c = 1 THEN "broken" ELSE "absent"]]
LoadFs == {FlatModel("ok"), FlatModel("broken"), BrokenChild}

LoadInit ==
    /\ settings \in {Blip("models", "cpu"), Blip("models", "cuda")}
    /\ cuda_available = FALSE
    /\ fs \in LoadFs
    /\ InitThreads
    /\ InitServing

LoadSpec == LoadInit /\ [][RaceNext]_vars

\* get_model resolves a source and BlipCaptioner.from_pretrained raises on it
ConstructionFails ==
    LET r == get_model(settings, fs, cuda_available)
    IN  r.kind # "ok" /\ r.path # NoPath

\* C20: a load_captioner call that ends because building the engine from the
\* resolved source failed ends with ModelLoadError.
C20_ConstructionFailsAsModelLoadError ==
    [][\A t \in Callers :
          (pc[t] = "l68" /\ pc'[t] = "idle" /\ ConstructionFails) =>
              out'[t] = Raised("ModelLoadError")]_vars

(***************************************************************************)
(* get_device and BlipCaptioner.from_pretrained called on their own: every *)
(* DEVICE setting with and without CUDA, and every model_source, a path    *)
(* under LOCAL_MODEL_DIR or a hub identifier, on every directory layout.   *)
(***************************************************************************)
Devices == {"None", "", "auto", "cpu", "cuda"}
Sources == (0 .. MaxChildren) \cup {HF_MODEL_NAME}

ConstructInit ==
    /\ settings \in {Blip("models", d) : d \in Devices}
    /\ cuda_available \in BOOLEAN
    /\ fs \in AllFs
    /\ InitThreads
    /\ InitServing

\* get_device(settings) is called (registry.py line 136)
select_device ==
    /\ built.dev.kind = "none"
    /\ built' = [built EXCEPT !.dev = get_device(settings, cuda_available)]
    /\ UNCHANGED <<env, MODEL, pc, op, arg, loc, warm, out, hist, resolved, gcs, http>>

\* BlipCaptioner.from_pretrained(model_source, device) is called
construct(model_source, device) ==
    /\ built.eng.kind = "none"
    /\ built' = [built EXCEPT !.eng =
                    [kind |-> from_pretrained(fs, model_source, device, cuda_available),
                     source |-> model_source,
                     calls |-> from_pretrained_calls(fs, model_source)]]
    /\ UNCHANGED <<env, MODEL, pc, op, arg, loc, warm, out, hist, resolved, gcs, http>>

ConstructNext ==
    \/ select_device
    \/ \E src \in Sources, d \in {"cpu", "cuda"} : construct(src, d)

ConstructSpec == ConstructInit /\ [][ConstructNext]_vars

Selected == built.dev.kind # "none"
DetectedDevice == IF cuda_available THEN "cuda" ELSE "cpu"

\* C21: an explicit cpu or cuda setting is the device used; with DEVICE auto
\* (the default), empty or unset the device is cuda when CUDA is available and
\* cpu otherwise; selection never fails.
C21_DeviceSelection ==
    Selected =>
        /\ built.dev.kind = "ok"
        /\ built.dev.device =
              IF settings.DEVICE \in {"cpu", "cuda"} THEN settings.DEVICE ELSE DetectedDevice

Constructed == built.eng.kind # "none"
EngineCalls == {built.eng.calls[i] : i \in 1 .. Len(built.eng.calls)}

\* C22: a model_source that is not an existing local directory makes
\* from_pretrained raise FileNotFoundError before any engine constructor is
\* called, and every engine constructor call is made on the given source with
\* local_files_only=True and trust_remote_code=False.
C22_LocalFilesOnly ==
    Constructed =>
        /\ ~isdir(fs, built.eng.source) =>
              (built.eng.kind = "FileNotFoundError" /\ built.eng.calls = <<>>)
        /\ \A c \in EngineCalls :
              c.local_files_only /\ ~c.trust_remote_code /\ c.source = built.eng.source
                /\ isdir(fs, c.source)

C22_Witness ==
    /\ Constructed /\ built.eng.source = HF_MODEL_NAME
    /\ built.eng.kind = "FileNotFoundError" /\ built.eng.calls = <<>>
    /\ fs.root = "dir" /\ fs.manifest = "ok"

(***************************************************************************)
(* predict_captions on every list of up to MaxBatch paths, called by one   *)
(* caller at a time.                                                       *)
(***************************************************************************)
MaxBatch == 3
Batches == UNION {[1 .. n -> Paths] : n \in 0 .. MaxBatch}

BatchNext ==
    \/ \E n \in BOOLEAN, ps \in Batches : call_predict_captions(1, n, ps)
    \/ load_captioner_61(1)
    \/ load_captioner_62(1)
    \/ load_captioner_68_get_model(1)
    \/ load_captioner_68_store(1)
    \/ load_captioner_73(1)

BatchSpec == Init /\ [][BatchNext]_vars

\* load_captioner returns to predict_captions in this step, and the loop runs
LoopRuns(t) ==
    /\ op[t] = "predict_captions"
    /\ pc[t] \in {"l62", "l73"} /\ pc'[t] = "idle"

Valid(path) == load_image(path).kind = "ok"

\* C23: on a list of n valid images predict_captions returns n captions, the
\* i-th generated from the i-th image.
C23_CaptionsInInputOrder ==
    [][\A t \in Callers :
          (LoopRuns(t) /\ \A i \in 1 .. Len(arg[t]) : Valid(arg[t][i])) =>
              /\ out'[t].kind = "value"
              /\ Len(out'[t].text) = Len(arg[t])
              /\ \A i \in 1 .. Len(arg[t]) : out'[t].text[i].image = arg[t][i]]_vars

C23_Witness ==
    /\ op[1] = "predict_captions" /\ out[1].kind = "value"
    /\ Len(out[1].text) = 3
    /\ out[1].text[1].image = "x2" /\ out[1].text[2].image = "x1"
    /\ out[1].text[3].image = "x2"

Predicts == {"predict_caption", "predict_captions"}

\* thread t's call of an inference function ends with InvalidInputError in this step
EndsInvalid(t) ==
    /\ op'[t] \in Predicts
    /\ out'[t] = Raised("InvalidInputError")
    /\ calls' # calls \/ pc'[t] # pc[t]
    /\ pc'[t] = "idle"

\* C25: the step in which predict_caption or predict_captions fails with
\* InvalidInputError changes neither _MODEL nor the number of get_model runs, and
\* no step of a call that found the cache Ready changes _MODEL: a Ready cache
\* stays Ready with the same captioner.
C25_InvalidInputKeepsCache ==
    [][\A t \in Callers :
          /\ EndsInvalid(t) =>
                (MODEL' = MODEL /\ gets' = gets /\ made' = made
                    /\ (warm'[t] => MODEL' # 0))
          /\ (warm[t] /\ op[t] \in Predicts /\ pc[t] # "idle" /\ pc'[t] # pc[t]) =>
                MODEL' = MODEL]_vars

C25_Witness ==
    \E t, u \in Callers :
        /\ t # u
        /\ op[t] \in Predicts /\ warm[t] /\ out[t] = Raised("InvalidInputError")
        /\ op[u] \in Predicts /\ warm[u] /\ out[u].kind = "value" /\ out[u].inst = MODEL
        /\ gets = 1 /\ made = 1 /\ calls = 3

\* C26: every caption returned by predict_caption or predict_captions was
\* generated by a captioner load_captioner returned from _MODEL (never None), with
\* do_sample=False, max_length = MAX_NEW_TOKENS and num_beams = BEAM_SIZE.
C26_GenerateDeterministicOnCached ==
    \A t \in Callers :
        (op[t] \in Predicts /\ out[t].kind = "value") =>
            /\ out[t].inst # 0 /\ out[t].inst \in returned /\ MODEL # 0
            /\ \A i \in 1 .. Len(out[t].text) :
                  /\ ~out[t].text[i].do_sample
                  /\ out[t].text[i].max_length = MAX_NEW_TOKENS
                  /\ out[t].text[i].num_beams = BEAM_SIZE

C26_Witness ==
    \E t, u \in Callers :
        /\ op[t] = "predict_caption" /\ out[t].kind = "value" /\ Len(out[t].text) = 1
        /\ op[u] = "predict_captions" /\ out[u].kind = "value" /\ Len(out[u].text) = 1
        /\ ~out[t].text[1].do_sample /\ ~out[u].text[1].do_sample

C29_ValidationBeforeLoad ==
    \A t \in Callers :
        /\ (pc[t] \in InLoadCaptioner /\ op[t] = "predict_caption") => arg[t][1] # ""
        /\ (pc[t] \in InLoadCaptioner /\ op[t] = "predict_captions") => arg[t] # <<>>
        /\ (gets = 0 /\ out[t].kind = "raise") =>
              (out[t] = Raised("InvalidInputError") /\ op[t] \in Predicts /\ MODEL = 0)

C29_Witness ==
    \E t, u \in Callers :
        /\ op[t] = "predict_caption" /\ out[t] = Raised("InvalidInputError")
        /\ op[u] = "predict_captions" /\ out[u] = Raised("InvalidInputError")
        /\ pc[t] = "idle" /\ pc[u] = "idle"
        /\ gets = 0 /\ MODEL = 0 /\ calls = 2

(***************************************************************************)
(* api/fast.py: one /predict or /predict_batch request.  An upload is "ok",*)
(* or reading it fails, or writing it to the temporary file fails, or it   *)
(* has no filename.  The temporary file of upload i is named i.            *)
(***************************************************************************)
MaxUploads == 3
UploadKinds == {"ok", "read_fails", "write_fails", "no_name"}
Uploads(route) ==
    IF route = "predict" THEN [1 .. 1 -> UploadKinds]
    ELSE UNION {[1 .. n -> UploadKinds] : n \in 1 .. MaxUploads}

\* the handler is entered: tmp_path = None / tmp_paths = []
Request(route, files) ==
    [pc |-> "save", route |-> route, files |-> files, i |-> 1, tmp_paths |-> <<>>,
     tmpdir |-> {}, status |-> 0]

ApiInit ==
    /\ settings = Blip("models", "cpu")
    /\ cuda_available = FALSE
    /\ fs = FlatModel("ok")
    /\ InitThreads
    /\ environ = NoEnviron /\ credentials = TRUE /\ installed = TRUE
    /\ bucket = {}
    /\ disk = Disk("dir", {})
    /\ fetched = NotFetched
    /\ before = disk
    /\ phase = "serving"
    /\ \E route \in {"predict", "predict_batch"} :
          \E files \in Uploads(route) : http = Request(route, files)

\* lines 74-79 / 129-133: splitext(filename), NamedTemporaryFile(delete=False),
\* tmp.write(await file.read()), and only then the name is recorded
api_save ==
    /\ http.pc = "save"
    /\ LET i == http.i
           kind == http.files[i]
       IN  http' =
              IF kind = "no_name"
              THEN [http EXCEPT !.pc = "finally", !.status = 500]
              ELSE IF kind \in {"read_fails", "write_fails"}
              THEN [http EXCEPT !.tmpdir = @ \cup {i}, !.pc = "finally", !.status = 500]
              ELSE [http EXCEPT !.tmpdir = @ \cup {i}, !.tmp_paths = Append(@, i),
                                !.i = i + 1,
                                !.pc = IF i = Len(http.files) THEN "infer" ELSE "save"]
    /\ UNCHANGED <<env, MODEL, pc, op, arg, loc, warm, out, hist, resolved, gcs, built>>

\* lines 82-87 / 136-149: predict_caption / predict_captions returns or raises
api_infer(ok) ==
    /\ http.pc = "infer"
    /\ http' = [http EXCEPT !.pc = "finally", !.status = IF ok THEN 200 ELSE 500]
    /\ UNCHANGED <<env, MODEL, pc, op, arg, loc, warm, out, hist, resolved, gcs, built>>

\* lines 89-95 / 151-158: finally, os.remove for every recorded path
api_finally ==
    /\ http.pc = "finally"
    /\ http' = [http EXCEPT
                   !.tmpdir = @ \ {http.tmp_paths[j] : j \in 1 .. Len(http.tmp_paths)},
                   !.pc = "done"]
    /\ UNCHANGED <<env, MODEL, pc, op, arg, loc, warm, out, hist, resolved, gcs, built>>

ApiNext ==
    \/ api_save
    \/ \E ok \in BOOLEAN : api_infer(ok)
    \/ api_finally

ApiSpec == ApiInit /\ [][ApiNext]_vars

\* C28: when a request has ended, no temporary file it created is left.
C28_TempFilesRemoved ==
    http.pc = "done" => http.tmpdir = {}

=============================================================================
